---- MODULE Spec2Model ----
(***************************************************************************)
(* Model of PyBTSteward/decode_eddystone.py: decode_eddystone(state,       *)
(* config, ad_struct), the decoder of one BLE advertising-data structure   *)
(* into an Eddystone UID / URL / TLM record.                               *)
(*                                                                         *)
(* ad_struct is a Python 3 bytes object, modelled as a sequence of         *)
(* integers 0..255 (TLA+ index i+1 is Python index i).  A call either      *)
(* returns the dictionary ret or raises; both are outcomes of the model.   *)
(* Python floats produced by a true division are kept as exact fractions   *)
(* [num, den], unsigned 32-bit integers as two 16-bit halves [hi, lo].     *)
(* The text values the decoder builds (url, namespace, instance) are       *)
(* sequences of character codes, so that chr and ord are exact;            *)
(* dictionary keys and the tags 'eddystone', 'uid', 'url', 'tlm' are TLA+  *)
(* strings.                                                                *)
(***************************************************************************)
EXTENDS Integers, Sequences, FiniteSets, TLC

VARIABLES
  ad_struct,     \* the buffer handed to the current call
  state,         \* the state argument of the current call
  config,        \* the config argument of the current call
  logger_level,  \* level of the module-global logger
  outcome,       \* what the current call produced (return / raise)
  pc             \* "call": about to run, "done": call finished

vars == <<ad_struct, state, config, logger_level, outcome, pc>>

(***************************************************************************)
(* Bounds of the model.                                                    *)
(***************************************************************************)
MaxPad == 2   \* bytes of the buffer that follow the sub-frame payload

(***************************************************************************)
(* Python values and helpers.                                              *)
(***************************************************************************)
None == "None"

Return(ret) == [kind |-> "return", ret |-> ret]
Raise(exc) == [kind |-> "raise", exc |-> exc]
NoOutcome == [kind |-> "none"]

Min(a, b) == IF a < b THEN a ELSE b

\* s[lo:hi] of Python for 0 <= lo <= hi: clipped to the buffer, never raises
Slice(s, lo, hi) == SubSeq(s, lo + 1, Min(hi, Len(s)))

\* s[i] of Python for i >= 0: the item, or IndexError
HasIndex(s, i) == i < Len(s)

\* struct format sizes (standard sizes, no alignment)
SizeCommon == 13   \* '<BBBBBBHBBHB'
SizeUID    == 17   \* '>b10s6s'
SizeURL    == 2    \* '>bB'
SizeTLM    == 13   \* '>BHhLL'

\* struct.unpack raises struct.error unless the buffer has exactly the size
Unpackable(size, buf) == Len(buf) = size

SignedByte(b) == IF b >= 128 THEN b - 256 ELSE b
Signed16(h) == IF h >= 32768 THEN h - 65536 ELSE h
BigEndian16(buf, i) == buf[i + 1] * 256 + buf[i + 2]

\* an unsigned 32-bit value hi * 65536 + lo, kept as its two 16-bit halves
\* (the values of 'L' fields exceed the integers of the checker)
U32(hi, lo) == [hi |-> hi, lo |-> lo]
BigEndian32(buf, i) == U32(BigEndian16(buf, i), BigEndian16(buf, i + 2))
LittleEndian16(buf, i) == buf[i + 1] + buf[i + 2] * 256

\* the characters 0123456789ABCDEF
HexDigits ==
  <<48, 49, 50, 51, 52, 53, 54, 55, 56, 57, 65, 66, 67, 68, 69, 70>>

\* '{:02X}'.format(i)
Hex02X(i) == <<HexDigits[(i \div 16) + 1], HexDigits[(i % 16) + 1]>>

RECURSIVE JoinHex(_)
\* ''.join('{:02X}'.format(i) for i in bs)
JoinHex(bs) == IF bs = <<>> THEN <<>> ELSE Hex02X(Head(bs)) \o JoinHex(Tail(bs))

\* a true division by a float constant, as the exact fraction
Fraction(n, d) == [num |-> n, den |-> d]

(***************************************************************************)
(* decode_eddystone, statement by statement.                               *)
(***************************************************************************)
EDDYSTONE_UUID == 65194   \* 0xFEAA
SD_TYPE        == 22      \* 0x16
SUB_UID        == 0       \* 0x00
SUB_URL        == 16      \* 0x10
SUB_TLM        == 32      \* 0x20
UID_LEN_SHORT  == 21      \* 0x15
UID_LEN_LONG   == 23      \* 0x17
TLM_LEN        == 17      \* 0x11
MIN_BYTES      == 5

\* length = int(ad_struct[0]) + 1
Length(ad) == ad[1] + 1

\* ret = {'adstruct_bytes': adstruct_bytes, 'type': None}
InitRet(adstruct_bytes) == [adstruct_bytes |-> adstruct_bytes, type |-> None]

\* variant: the declared length is not compared with the buffer
LongEnough_NoUpper(adstruct_bytes, ad) == adstruct_bytes >= MIN_BYTES

\* if adstruct_bytes >= 5 and adstruct_bytes <= len(ad_struct)
LongEnough(adstruct_bytes, ad) ==
  adstruct_bytes >= MIN_BYTES /\ adstruct_bytes <= Len(ad)

\* EddystoneCommon._make(struct.unpack('<BBBBBBHBBHB', buf)), buf of 13 bytes
EddystoneCommon(buf) ==
  [adstruct_bytes |-> buf[1], sd_length |-> buf[2], sd_flags_type |-> buf[3],
   sd_flags_data |-> buf[4], uuid_list_len |-> buf[5], uuid_dt_val |-> buf[6],
   eddystone_uuid |-> LittleEndian16(buf, 6), eddy_len |-> buf[9],
   sd_type |-> buf[10], eddy_uuid_2 |-> LittleEndian16(buf, 10),
   sub_type |-> buf[13]]

\* if ec.eddystone_uuid == 0xFEAA and ec.sd_type == 0x16
IsEddystone(ec) == ec.eddystone_uuid = EDDYSTONE_UUID /\ ec.sd_type = SD_TYPE

\* if ec.sub_type == 0x00 and (ec.eddy_len == 0x15 or ec.eddy_len == 0x17)
IsUID(ec) ==
  ec.sub_type = SUB_UID /\ (ec.eddy_len = UID_LEN_SHORT \/ ec.eddy_len = UID_LEN_LONG)

\* if ec.sub_type == 0x10
IsURL(ec) == ec.sub_type = SUB_URL

\* if ec.sub_type == 0x20 and ec.eddy_len == 0x11
IsTLM(ec) == ec.sub_type = SUB_TLM /\ ec.eddy_len = TLM_LEN

\* variant: rssi_ref unpacked as 'B'
EddystoneUID_Unsigned(buf) ==
  [rssi_ref |-> buf[1], namespace |-> SubSeq(buf, 2, 11),
   instance |-> SubSeq(buf, 12, 17)]

\* EddystoneUID._make(struct.unpack('>b10s6s', buf)), buf of 17 bytes
EddystoneUID(buf) ==
  [rssi_ref |-> SignedByte(buf[1]), namespace |-> SubSeq(buf, 2, 11),
   instance |-> SubSeq(buf, 12, 17)]

\* the UID branch, run on the dictionary built so far
UidBranch(ret, ad) ==
  LET buf == Slice(ad, 13, 30) IN
  IF ~Unpackable(SizeUID, buf) THEN Raise("struct.error")
  ELSE LET ei == EddystoneUID(buf) IN
       Return(ret @@ [sub_type |-> "uid", namespace |-> JoinHex(ei.namespace),
                      instance |-> JoinHex(ei.instance), rssi_ref |-> ei.rssi_ref])

\* EddyStoneURL._make(struct.unpack('>bB', buf)), buf of 2 bytes
EddyStoneURL(buf) == [rssi_ref |-> SignedByte(buf[1]), url_scheme |-> buf[2]]

Schemes ==
  <<<<104, 116, 116, 112, 58, 47, 47, 119, 119, 119, 46>>,
    <<104, 116, 116, 112, 115, 58, 47, 47, 119, 119, 119, 46>>,
    <<104, 116, 116, 112, 58, 47, 47>>,
    <<104, 116, 116, 112, 115, 58, 47, 47>>>>

\* ['http://www.', 'https://www.', 'http://', 'https://'][url_scheme & 0x03]
SchemePrefix(url_scheme) == Schemes[(url_scheme % 4) + 1]

\* ['.com', '.org', '.edu', '.net', '.info', '.biz', '.gov']
Expansions ==
  <<<<46, 99, 111, 109>>,
    <<46, 111, 114, 103>>,
    <<46, 101, 100, 117>>,
    <<46, 110, 101, 116>>,
    <<46, 105, 110, 102, 111>>,
    <<46, 98, 105, 122>>,
    <<46, 103, 111, 118>>>>

\* if c_code < 14
IsExpansion(c_code) == c_code < 14

\* variant: lower bound 0x02
IsGraphic_LowBound(c_code) == c_code > 2 /\ c_code < 127

\* if c_code > 0x20 and c_code < 0x7F
IsGraphic(c_code) == c_code > 32 /\ c_code < 127

\* what the first conditional of the loop body appends to ret['url'] for a
\* character of code c_code
ExpansionText(c_code) ==
  IF IsExpansion(c_code)
  THEN Expansions[(IF c_code < 7 THEN c_code ELSE c_code - 7) + 1]
       \o (IF c_code < 7 THEN <<47>> ELSE <<>>)
  ELSE <<>>

\* what the second conditional of the loop body appends to ret['url'] for a
\* character of code c_code
GraphicText(c_code) == IF IsGraphic(c_code) THEN <<c_code>> ELSE <<>>

\* what lines 143-153 append in one pass, once ord(c) has given c_code
UrlStepText(c_code) == ExpansionText(c_code) \o GraphicText(c_code)

RECURSIVE UrlScan(_, _)
\* the text lines 143-153 build from u over characters of the given codes
UrlScan(u, codes) ==
  IF codes = <<>> THEN u ELSE UrlScan(u \o UrlStepText(Head(codes)), Tail(codes))

\* for c in items: c_code = ord(c); ...  The items of a bytes slice are
\* integers, on which ord() raises TypeError at the first pass, before either
\* conditional of the body is evaluated.
UrlLoop(u, items) == IF items = <<>> THEN Return(u) ELSE Raise("TypeError")

\* the URL branch, run on the dictionary built so far
UrlBranch(ret, ad) ==
  LET buf == Slice(ad, 13, 20) IN
  IF ~Unpackable(SizeURL, buf) THEN Raise("struct.error")
  ELSE IF ~HasIndex(ad, Len(ad)) THEN Raise("IndexError")
  ELSE LET eu == EddyStoneURL(buf)
           loop == UrlLoop(SchemePrefix(eu.url_scheme),
                           Slice(ad, 7, ret.adstruct_bytes))
       IN IF loop.kind = "raise" THEN loop
          ELSE Return(ret @@ [sub_type |-> "url", rssi_ref |-> eu.rssi_ref,
                              rssi_fudge |-> ad[Len(ad) + 1],
                              url |-> loop.ret])

\* variant: temp unpacked as 'H'
EddystoneTLM_UnsignedTemp(buf) ==
  [tlm_version |-> buf[1], vbatt |-> BigEndian16(buf, 1),
   temp |-> BigEndian16(buf, 3), adv_cnt |-> BigEndian32(buf, 5),
   sec_cnt |-> BigEndian32(buf, 9)]

\* EddystoneTLM._make(struct.unpack('>BHhLL', buf)), buf of 13 bytes
EddystoneTLM(buf) ==
  [tlm_version |-> buf[1], vbatt |-> BigEndian16(buf, 1),
   temp |-> Signed16(BigEndian16(buf, 3)), adv_cnt |-> BigEndian32(buf, 5),
   sec_cnt |-> BigEndian32(buf, 9)]

\* the fields added when et.tlm_version == 0x00
TlmMetrics(et) ==
  [vbatt |-> Fraction(et.vbatt, 1000), temp |-> Fraction(et.temp, 256),
   adv_cnt |-> et.adv_cnt, sec_cnt |-> Fraction(et.sec_cnt, 10)]

\* variant: the branch reports the bytes of the TLM frame as adstruct_bytes
TlmBranch_Overwrite(ret, ad) ==
  LET buf == Slice(ad, 13, 26) IN
  IF ~Unpackable(SizeTLM, buf) THEN Raise("struct.error")
  ELSE LET et == EddystoneTLM(buf)
           r1 == [ret EXCEPT !.adstruct_bytes = 26]
                   @@ [sub_type |-> "tlm", tlm_version |-> et.tlm_version]
       IN Return(IF et.tlm_version = 0 THEN r1 @@ TlmMetrics(et) ELSE r1)

\* the TLM branch, run on the dictionary built so far
TlmBranch(ret, ad) ==
  LET buf == Slice(ad, 13, 26) IN
  IF ~Unpackable(SizeTLM, buf) THEN Raise("struct.error")
  ELSE LET et == EddystoneTLM(buf)
           r1 == ret @@ [sub_type |-> "tlm", tlm_version |-> et.tlm_version]
       IN Return(IF et.tlm_version = 0 THEN r1 @@ TlmMetrics(et) ELSE r1)

\* the three sub type conditionals in source order; a raise ends the call
Dispatch(ret, ec, ad) ==
  LET o1 == IF IsUID(ec) THEN UidBranch(ret, ad) ELSE Return(ret)
      o2 == IF o1.kind = "return" /\ IsURL(ec) THEN UrlBranch(o1.ret, ad) ELSE o1
      o3 == IF o2.kind = "return" /\ IsTLM(ec) THEN TlmBranch(o2.ret, ad) ELSE o2
  IN o3

\* the whole function.  state is never read; config is read at line 23 only
\* (see SetLevel), and no later statement reads the logger level back.
decode_eddystone(st, cfg, ad) ==
  IF ~HasIndex(ad, 0) THEN Raise("IndexError")
  ELSE LET adstruct_bytes == Length(ad)
           ret == InitRet(adstruct_bytes)
       IN IF ~LongEnough(adstruct_bytes, ad) THEN Return(ret)
          ELSE LET buf == Slice(ad, 0, 13) IN
               IF ~Unpackable(SizeCommon, buf) THEN Raise("struct.error")
               ELSE LET ec == EddystoneCommon(buf) IN
                    IF IsEddystone(ec)
                    THEN Dispatch([ret EXCEPT !.type = "eddystone"], ec, ad)
                    ELSE Return(ret)

\* logger.setLevel(config['Logging']['decode_eddy_loglevel'])
SetLevel(cfg) == cfg.Logging.decode_eddy_loglevel

(***************************************************************************)
(* Inputs.  A buffer is a length byte, the twelve remaining bytes of the   *)
(* common header, a sub-frame payload and up to MaxPad further bytes; the  *)
(* short buffers are prefixes of a header.                                 *)
(***************************************************************************)
\* bytes 1..12 of the common header
HeaderTail(uuid, eddy_len, sd_type, sub_type) ==
  <<2, 1, 6, 3, 3, uuid % 256, uuid \div 256, eddy_len, sd_type, 170, 254, sub_type>>

Uuids == {EDDYSTONE_UUID, 43774}            \* 0xFEAA, 0xAAFE
SdTypes == {SD_TYPE, 3}
EddyLens == {TLM_LEN, UID_LEN_SHORT, UID_LEN_LONG, 16}
SubTypes == {SUB_UID, SUB_URL, SUB_TLM, 48}

HeaderTails ==
  {HeaderTail(u, el, sd, st) : u \in Uuids, el \in EddyLens, sd \in SdTypes, st \in SubTypes}

Namespaces ==
  {<<1, 2, 3, 4, 5, 6, 7, 8, 9, 10>>, <<171, 205, 239, 0, 255, 16, 154, 15, 240, 123>>}
Instances == {<<11, 12, 13, 14, 15, 16>>, <<222, 173, 190, 239, 0, 1>>}

\* rssi_ref, namespace, instance
UidPayloads == {<<r>> \o ns \o inst : r \in {236}, ns \in Namespaces, inst \in Instances}

\* 'example' and the expansion code 0x00
ExampleCodes == <<101, 120, 97, 109, 112, 108, 101, 0>>

\* rssi_ref, url_scheme, encoded URL
UrlPayloads ==
  {<<r, sch>> \o enc : r \in {236}, sch \in {0, 3}, enc \in {<<>>, ExampleCodes, <<97, 7>>}}

\* tlm_version, vbatt, temp, adv_cnt, sec_cnt
TlmPayloads ==
  {<<0, 12, 228, 8, 0, 0, 0, 0, 10, 0, 0, 0, 100>>,
   <<1, 12, 228, 8, 0, 0, 0, 0, 10, 0, 0, 0, 100>>,
   <<0, 255, 255, 255, 128, 255, 255, 255, 255, 0, 0, 0, 7>>,
   <<0, 0, 0, 128, 0, 0, 1, 0, 0, 255, 255, 255, 255>>,
   <<2, 0, 1, 0, 1, 0, 0, 0, 1, 0, 0, 0, 1>>}

Payloads == UidPayloads \cup UrlPayloads \cup TlmPayloads \cup {<<>>}

\* n further bytes after the payload
Pad(n) == [i \in 1..n |-> 90 + i]

\* the payload as sent, with one byte missing, or followed by further bytes
Bodies ==
  {p \o Pad(n) : p \in Payloads, n \in 0..MaxPad}
    \cup {SubSeq(p, 1, Len(p) - 1) : p \in Payloads \ {<<>>}}

\* length bytes tried for a buffer of n bytes whose last k bytes are padding
LengthBytes(n) == {3, 6, n - 1, n - 3, n} \cap 0..255

Frames ==
  UNION {{<<l>> \o h \o b : l \in LengthBytes(13 + Len(b))} : h \in HeaderTails, b \in Bodies}

\* URL frames whose encoded URL is one byte, for every byte value
UrlByteFrames ==
  {<<15>> \o HeaderTail(EDDYSTONE_UUID, 16, SD_TYPE, SUB_URL) \o <<236, 0, c>> :
     c \in 0..255}

ShortInputs ==
  {SubSeq(<<l>> \o HeaderTail(u, UID_LEN_SHORT, sd, SUB_UID), 1, n) :
     l \in {0, 3, 4, 7, 11, 12, 255}, u \in Uuids, sd \in SdTypes, n \in 0..12}

Inputs == Frames \cup UrlByteFrames \cup ShortInputs

States == {"s0", "s1"}

Levels == {"DEBUG", "WARNING"}

\* config as far as the decoder reads it
Configs == {[Logging |-> [decode_eddy_loglevel |-> lv]] : lv \in Levels}

(***************************************************************************)
(* One call of decode_eddystone on a drawn buffer.                         *)
(***************************************************************************)
Init ==
  /\ pc = "call"
  /\ ad_struct \in Inputs
  /\ state \in States
  /\ config \in Configs
  /\ logger_level = "NOTSET"
  /\ outcome = NoOutcome

\* the call: the logger level is set, then the buffer is decoded
Decode ==
  /\ pc = "call"
  /\ logger_level' = SetLevel(config)
  /\ outcome' = decode_eddystone(state, config, ad_struct)
  /\ pc' = "done"
  /\ UNCHANGED <<ad_struct, state, config>>

Next == Decode

Spec == Init /\ [][Next]_vars

(***************************************************************************)
(* Properties.                                                             *)
(***************************************************************************)
\* the Unknown result for the current buffer
UnknownResult == Return([adstruct_bytes |-> ad_struct[1] + 1, type |-> None])

\* the current buffer passes the length test and carries the Eddystone
\* service UUID and service-data type in its header
EddystoneFrame ==
  /\ Len(ad_struct) >= 13
  /\ ad_struct[1] + 1 >= 5
  /\ ad_struct[1] + 1 <= Len(ad_struct)
  /\ ad_struct[7] = 170 /\ ad_struct[8] = 254
  /\ ad_struct[10] = 22

\* the codes of 'http://www.example.com/'
ExampleUrl ==
  <<104, 116, 116, 112, 58, 47, 47, 119, 119, 119, 46, 101, 120, 97, 109, 112,
    108, 101, 46, 99, 111, 109, 47>>

\* C1: decode_eddystone never raises for a buffer of length >= 1: every call
\* on a non-empty buffer ends with a returned result.
C1_NeverRaises ==
  pc = "done" /\ Len(ad_struct) >= 1 => outcome.kind = "return"

\* C2: if L + 1 < 5 or L + 1 > len(ad_struct), where L = ad_struct[0], the
\* call returns the Unknown result (type None, adstruct_bytes = L + 1 and no
\* other field), whatever the other header bytes are.
C2_OutOfRangeLengthIsUnknown ==
  (/\ pc = "done"
   /\ Len(ad_struct) >= 1
   /\ (ad_struct[1] + 1 < 5 \/ ad_struct[1] + 1 > Len(ad_struct)))
  => /\ outcome = UnknownResult
     /\ DOMAIN outcome.ret = {"adstruct_bytes", "type"}

\* a buffer with a full Eddystone UID header and payload whose declared length
\* exceeds the buffer, decoded as Unknown
C2_Witness ==
  /\ pc = "done"
  /\ Len(ad_struct) >= 30
  /\ ad_struct[1] + 1 > Len(ad_struct)
  /\ ad_struct[7] = 170 /\ ad_struct[8] = 254 /\ ad_struct[10] = 22
  /\ ad_struct[13] = 0 /\ ad_struct[9] = 21
  /\ outcome = UnknownResult

\* C3: whenever the header field eddystone_uuid (bytes 6-7) is not 0xFEAA or
\* the header field sd_type (byte 9) is not 0x16, the call returns the Unknown
\* result.
C3_NotEddystoneIsUnknown ==
  (/\ pc = "done"
   /\ \/ Len(ad_struct) >= 8 /\ ~(ad_struct[7] = 170 /\ ad_struct[8] = 254)
      \/ Len(ad_struct) >= 10 /\ ad_struct[10] # 22)
  => outcome = UnknownResult

\* C4: every returned result carries adstruct_bytes = ad_struct[0] + 1, a
\* value in 1..256, whichever branch was taken.
C4_AdstructBytesReported ==
  pc = "done" /\ outcome.kind = "return"
  => /\ "adstruct_bytes" \in DOMAIN outcome.ret
     /\ outcome.ret.adstruct_bytes = ad_struct[1] + 1
     /\ outcome.ret.adstruct_bytes \in 1..256

\* a TLM result for a structure that ends before the buffer does
C4_Witness ==
  /\ pc = "done"
  /\ outcome.kind = "return"
  /\ outcome.ret.type = "eddystone"
  /\ "sub_type" \in DOMAIN outcome.ret
  /\ outcome.ret.sub_type = "tlm"
  /\ outcome.ret.adstruct_bytes = 26
  /\ Len(ad_struct) = 28

\* C5: for an Eddystone URL frame the call returns a url that is the scheme
\* prefix selected by url_scheme & 0x03 followed by the decoding of the
\* encoded bytes after the url_scheme byte; scheme 0x00, 'example' and code
\* 0x00 give 'http://www.example.com/'.
C5_UrlDecoded ==
  (/\ pc = "done"
   /\ EddystoneFrame
   /\ ad_struct[13] = 16
   /\ Len(ad_struct) >= 15)
  => /\ outcome.kind = "return"
     /\ "url" \in DOMAIN outcome.ret
     /\ outcome.ret.url =
          UrlScan(SchemePrefix(ad_struct[15]), SubSeq(ad_struct, 16, ad_struct[1] + 1))
     /\ (ad_struct[15] = 0 /\ SubSeq(ad_struct, 16, ad_struct[1] + 1) = ExampleCodes
           => outcome.ret.url = ExampleUrl)

\* C6: for an Eddystone URL frame the call returns rssi_fudge = the last byte
\* of the buffer and rssi_ref = byte 13 as a signed 8-bit integer.
C6_UrlRssi ==
  (/\ pc = "done"
   /\ EddystoneFrame
   /\ ad_struct[13] = 16
   /\ Len(ad_struct) >= 15)
  => /\ outcome.kind = "return"
     /\ "rssi_fudge" \in DOMAIN outcome.ret
     /\ outcome.ret.rssi_fudge = ad_struct[Len(ad_struct)]
     /\ outcome.ret.rssi_ref =
          (IF ad_struct[14] >= 128 THEN ad_struct[14] - 256 ELSE ad_struct[14])

\* C7: for an Eddystone UID frame with eddy_len 0x15 or 0x17 on a buffer of at
\* least 30 bytes the result has sub_type 'uid', rssi_ref = byte 13 signed,
\* namespace = the 20 uppercase hex digits of bytes [14,24), instance = the 12
\* uppercase hex digits of bytes [24,30); the 30-byte frame that carries the
\* same bytes [13,30) under the other eddy_len decodes to the same three
\* fields.
C7_UidDecoded ==
  (/\ pc = "done"
   /\ EddystoneFrame
   /\ ad_struct[13] = 0
   /\ ad_struct[9] \in {21, 23}
   /\ Len(ad_struct) >= 30)
  => LET upper == <<48, 49, 50, 51, 52, 53, 54, 55, 56, 57, 65, 66, 67, 68, 69, 70>>
         twin == [SubSeq(ad_struct, 1, 30) EXCEPT ![1] = 29, ![9] = 44 - ad_struct[9]]
         other == decode_eddystone(state, config, twin)
     IN /\ outcome.kind = "return"
        /\ outcome.ret.type = "eddystone"
        /\ outcome.ret.sub_type = "uid"
        /\ outcome.ret.rssi_ref =
             (IF ad_struct[14] >= 128 THEN ad_struct[14] - 256 ELSE ad_struct[14])
        /\ Len(outcome.ret.namespace) = 20
        /\ \A i \in 0..9 :
             /\ outcome.ret.namespace[2 * i + 1] = upper[(ad_struct[15 + i] \div 16) + 1]
             /\ outcome.ret.namespace[2 * i + 2] = upper[(ad_struct[15 + i] % 16) + 1]
        /\ Len(outcome.ret.instance) = 12
        /\ \A i \in 0..5 :
             /\ outcome.ret.instance[2 * i + 1] = upper[(ad_struct[25 + i] \div 16) + 1]
             /\ outcome.ret.instance[2 * i + 2] = upper[(ad_struct[25 + i] % 16) + 1]
        /\ other.kind = "return"
        /\ other.ret.rssi_ref = outcome.ret.rssi_ref
        /\ other.ret.namespace = outcome.ret.namespace
        /\ other.ret.instance = outcome.ret.instance

\* the UID frame of namespace 01..0A, instance 0B..10 and rssi_ref 0xEC sent
\* with eddy_len 0x17 and two reserved bytes
C7_Witness ==
  /\ pc = "done"
  /\ Len(ad_struct) = 32
  /\ ad_struct[1] = 31
  /\ ad_struct[9] = 23
  /\ outcome.kind = "return"
  /\ outcome.ret.type = "eddystone"
  /\ "sub_type" \in DOMAIN outcome.ret
  /\ outcome.ret.sub_type = "uid"
  /\ outcome.ret.rssi_ref = -20
  /\ outcome.ret.namespace =
       <<48, 49, 48, 50, 48, 51, 48, 52, 48, 53, 48, 54, 48, 55, 48, 56, 48, 57, 48, 65>>
  /\ outcome.ret.instance = <<48, 66, 48, 67, 48, 68, 48, 69, 48, 70, 49, 48>>

\* C8: for an Eddystone TLM frame (sub_type 0x20, eddy_len 0x11) on a buffer of
\* at least 26 bytes the result has tlm_version = byte 13 and holds vbatt,
\* temp, adv_cnt, sec_cnt exactly when tlm_version = 0; then they are the
\* big-endian u16 at [14,16) / 1000, the signed i16 at [16,18) / 256, the u32
\* at [18,22) and the u32 at [22,26) / 10.
C8_TlmDecoded ==
  (/\ pc = "done"
   /\ EddystoneFrame
   /\ ad_struct[13] = 32
   /\ ad_struct[9] = 17
   /\ Len(ad_struct) >= 26)
  => LET metrics == {"vbatt", "temp", "adv_cnt", "sec_cnt"}
         t == ad_struct[17] * 256 + ad_struct[18]
     IN /\ outcome.kind = "return"
        /\ outcome.ret.sub_type = "tlm"
        /\ outcome.ret.tlm_version = ad_struct[14]
        /\ (ad_struct[14] = 0 => metrics \subseteq DOMAIN outcome.ret)
        /\ (ad_struct[14] # 0 => metrics \cap DOMAIN outcome.ret = {})
        /\ (ad_struct[14] = 0 =>
              /\ outcome.ret.vbatt =
                   [num |-> ad_struct[15] * 256 + ad_struct[16], den |-> 1000]
              /\ outcome.ret.temp =
                   [num |-> IF t >= 32768 THEN t - 65536 ELSE t, den |-> 256]
              /\ outcome.ret.adv_cnt =
                   [hi |-> ad_struct[19] * 256 + ad_struct[20],
                    lo |-> ad_struct[21] * 256 + ad_struct[22]]
              /\ outcome.ret.sec_cnt =
                   [num |-> [hi |-> ad_struct[23] * 256 + ad_struct[24],
                             lo |-> ad_struct[25] * 256 + ad_struct[26]],
                    den |-> 10])

\* the version 0 frame of vbatt 3300, temp 2048, adv_cnt 10, sec_cnt 100
C8_Witness ==
  /\ pc = "done"
  /\ outcome.kind = "return"
  /\ "sub_type" \in DOMAIN outcome.ret
  /\ outcome.ret.sub_type = "tlm"
  /\ outcome.ret.tlm_version = 0
  /\ outcome.ret.vbatt = [num |-> 3300, den |-> 1000]
  /\ outcome.ret.temp = [num |-> 2048, den |-> 256]
  /\ outcome.ret.adv_cnt = [hi |-> 0, lo |-> 10]
  /\ outcome.ret.sec_cnt = [num |-> [hi |-> 0, lo |-> 100], den |-> 10]

\* C10 as stated: some byte value passes both the expansion-code test of
\* line 144 and the printable-character test of line 151, so that one scanned
\* byte of a URL frame appends a token and a literal character.
C10_BothFire ==
  (/\ pc = "done"
   /\ EddystoneFrame
   /\ ad_struct[13] = 16)
  => \E c \in 0..255 : IsExpansion(c) /\ IsGraphic(c)

\* C10 amended: the two tests are separate conditionals, but their ranges are
\* disjoint: of the bytes ad_struct[7:adstruct_bytes] that the loop of a URL
\* frame is written to scan, none passes both tests, so no byte can append
\* both an expansion token and a literal character.
C10_TestsExclusive ==
  (/\ pc = "done"
   /\ EddystoneFrame
   /\ ad_struct[13] = 16)
  => \A i \in 8..(ad_struct[1] + 1) :
       ~(IsExpansion(ad_struct[i]) /\ IsGraphic(ad_struct[i]))

\* a finished call on the URL frame of 'example' and code 0x00: its slice
\* holds a byte that passes the first test only and one that passes the
\* second only; the call itself ended at line 132
C10_Witness ==
  /\ pc = "done"
  /\ EddystoneFrame
  /\ ad_struct[13] = 16
  /\ ad_struct[1] + 1 = 23
  /\ SubSeq(ad_struct, 16, 23) = ExampleCodes
  /\ IsExpansion(ad_struct[23]) /\ ~IsGraphic(ad_struct[23])
  /\ IsGraphic(ad_struct[16]) /\ ~IsExpansion(ad_struct[16])
  /\ outcome = Raise("struct.error")

====
